---- MODULE Spec2Model ----
(***************************************************************************)
(* jw2epub: download an issue of Jungle World and convert it to epub.      *)
(*                                                                         *)
(* The model follows src/jw2epub.py.  Python str values are TLA+ strings   *)
(* (TLC evaluates Len, SubSeq and \o on them), Python None is the record   *)
(* None, an HTML document is a record holding its text and what the HTML   *)
(* parser finds in it.  The network and the clock are the environment:     *)
(* every request draws its outcome from the outcomes urlopen can have.     *)
(***************************************************************************)
EXTENDS Integers, Sequences, FiniteSets, TLC

VARIABLES
    pc,         \* position of the process inside JW2EPUB.run
    run,        \* number of the current process run (1..MaxRuns)
    uri_index,  \* self.uri_index
    cache,      \* the files below Settings.CACHEDIR: path -> content
    issue_no,   \* self.issue_no
    issue_dir,  \* self.issue_dir
    title,      \* self.title
    uri_cover,  \* self.uri_cover
    soup,       \* the parsed index page (local of run)
    pos,        \* get_stories: position of the for loop in the anchors
    first,      \* get_stories: local first
    stories,    \* get_stories: local stories
    parsed,     \* get_stories: local parsed
    book,       \* the Epub3 object built by make_book
    written,    \* the package files written by book.write in this run
    requests,   \* log: the URLs requested from the network in this run
    visits,     \* log: per call of get_story in this run, its uri and outcome
    input,      \* argument of the function under test (function specifications)
    output      \* its result

pipe_vars == <<pc, run, uri_index, cache, issue_no, issue_dir, title, uri_cover,
               soup, pos, first, stories, parsed, book, written, requests, visits>>
vars == <<pipe_vars, input, output>>

-----------------------------------------------------------------------------
(* Bounds of the model *)

MaxRuns == 2

-----------------------------------------------------------------------------
(* Python values *)

None == [kind |-> "None"]

\* str methods and os.path functions, as CPython computes them
Char(s, i) == SubSeq(s, i, i)

\* s.find(t, i-1) + 1: the first position >= i where t occurs in s, 0 if none
Find(s, t, i) ==
    LET hits == {j \in i..(Len(s) - Len(t) + 1) : SubSeq(s, j, j + Len(t) - 1) = t}
    IN  IF hits = {} THEN 0
        ELSE CHOOSE j \in hits : \A k \in hits : j <= k

\* t in s
Contains(s, t) == Find(s, t, 1) # 0

\* s.endswith(t)
EndsWith(s, t) ==
    /\ Len(t) <= Len(s)
    /\ SubSeq(s, Len(s) - Len(t) + 1, Len(s)) = t

RECURSIVE Split(_, _)
\* s.split(sep), sep one character
Split(s, sep) ==
    LET i == Find(s, sep, 1) IN
    IF i = 0 THEN <<s>>
    ELSE <<SubSeq(s, 1, i - 1)>> \o Split(SubSeq(s, i + 1, Len(s)), sep)

\* the characters str.strip() removes (str.isspace), as far as a string of the
\* module can hold them: tab, line feed, vertical tab, form feed, carriage
\* return, U+001C..U+001F, space, U+0085, U+00A0, U+1680.  (The spaces from
\* U+2000 on cannot occur in a string of the module.)
Whitespace == {" ", "\t", "\n", "", "\f", "\r", "", "", "", "",
               "", " ", " "}

RECURSIVE LStrip(_)
LStrip(s) ==
    IF Len(s) > 0 /\ Char(s, 1) \in Whitespace THEN LStrip(SubSeq(s, 2, Len(s)))
    ELSE s

RECURSIVE RStrip(_)
RStrip(s) ==
    IF Len(s) > 0 /\ Char(s, Len(s)) \in Whitespace
    THEN RStrip(SubSeq(s, 1, Len(s) - 1))
    ELSE s

\* s.strip()
Strip(s) == RStrip(LStrip(s))

RECURSIVE Replace(_, _, _)
\* s.replace(old, new), old not empty
Replace(s, old, new) ==
    LET i == Find(s, old, 1) IN
    IF i = 0 THEN s
    ELSE SubSeq(s, 1, i - 1) \o new
         \o Replace(SubSeq(s, i + Len(old), Len(s)), old, new)

RECURSIVE LastSlash(_, _)
LastSlash(p, i) ==
    IF i = 0 THEN 0
    ELSE IF Char(p, i) = "/" THEN i
    ELSE LastSlash(p, i - 1)

\* os.path.basename(p)
Basename(p) == SubSeq(p, LastSlash(p, Len(p)) + 1, Len(p))

\* os.path.join(a, b)
PathJoin(a, b) ==
    IF Len(b) > 0 /\ Char(b, 1) = "/" THEN b
    ELSE IF a = "" \/ EndsWith(a, "/") THEN a \o b
    ELSE a \o "/" \o b

DigitStr(d) == SubSeq("0123456789", d + 1, d + 1)

RECURSIVE Str(_)
\* str(n), n >= 0
Str(n) == IF n < 10 THEN DigitStr(n) ELSE Str(n \div 10) \o DigitStr(n % 10)

-----------------------------------------------------------------------------
(* Settings *)

CACHEDIR == "cache"
SERVER == "https://jungle-world.com"
URI_INDEX == "/inhalt/"
URI_ARTICLE == "/artikel/"

-----------------------------------------------------------------------------
(* Content Filter *)

skip_text == "Diesen Artikel finden Sie bisher nur in der gedruckten Jungle World"

\* a Python str as a value that may also be None; an HTML page is such a
\* value with the fields the HTML parser reads from it added
PyStr(text) == [kind |-> "str", text |-> text]

\* `not html` of a str or None
Falsy(html) == html = None \/ html.text = ""

shall_skip_html_prefix_only(html) ==
    IF Falsy(html) THEN TRUE
    ELSE /\ Len(html.text) >= Len(skip_text)
         /\ SubSeq(html.text, 1, Len(skip_text)) = skip_text

\* JW2EPUB._shall_skip_html
shall_skip_html(html) ==
    IF Falsy(html) THEN TRUE
    ELSE IF Contains(html.text, skip_text) THEN TRUE
    ELSE FALSE

-----------------------------------------------------------------------------
(* Issue Resolver: the text part of parse_index *)

\* century = str(datetime.datetime.now().year)[:2]
Century(year) == SubSeq(Str(year), 1, 2)

\* self.title.split('.')[1:2]
TitleSlice(t) ==
    LET parts == Split(t, ".") IN
    IF Len(parts) >= 2 THEN <<parts[2]>> ELSE <<>>

\* issue = self.title.split('.')[1:2][0].split(',')[0].strip().split('/')
IssueParts(t) == Split(Strip(Split(TitleSlice(t)[1], ",")[1]), "/")

\* the IndexError of [0] on an empty slice and of issue[1] on a short list
IssueRaises(t) ==
    IF TitleSlice(t) = <<>> THEN TRUE
    ELSE Len(IssueParts(t)) < 2

IssueNoWithoutCentury(t, year) == IssueParts(t)[2] \o "." \o IssueParts(t)[1]

\* self.issue_no = century + issue[1] + '.' + issue[0]
IssueNo(t, year) == Century(year) \o IssueParts(t)[2] \o "." \o IssueParts(t)[1]

\* filename_book = 'JW-{}.epub'.format(self.issue_no)
FilenameBook(no) == "JW-" \o no \o ".epub"

\* self.uri_cover = img_src.replace('thumb_', '')
UriCover(img_src) == Replace(img_src, "thumb_", "")

-----------------------------------------------------------------------------
(* The site: the pages the server may answer a request with                 *)

\* An HTML page is a str with the nodes the parser finds in it:
\*   div    str(soup.find('div', {'class': 'story'})), "" when there is none
\*   h1     story.find('h1').find('span').text, None when a node is missing
\*   cover  whether soup.find('div', {'class': 'cover_thumb'}) finds a node
\*   p      the text of the <p> of the cover node
\*   img    the src of the <img> of the cover node, None when it has none
\*   hrefs  the href of every <a href=...> of the page, in document order
\*   menuR  str(story.find('div', {'class': 'menuR'})), "" when there is none
\*   share  str(story.find('p', {'class': 'share'})), "" when there is none
\*   src    the URL the server serves the page under
Page(url, text, div, h1, cover, p, img, hrefs) ==
    [kind |-> "str", text |-> text, div |-> div, h1 |-> h1, cover |-> cover,
     p |-> p, img |-> img, hrefs |-> hrefs, menuR |-> "", share |-> "",
     src |-> url]

\* a page whose story node holds the print menu and the share paragraph
WithWidgets(page, menuR, share) ==
    [page EXCEPT !.menuR = menuR, !.share = share]

ArticleKinds == {"ok", "widgets", "unpublished", "nostory", "notitle"}

ArticlePage(url, k) ==
    CASE k = "ok" ->
           Page(url, "<div class=\"story\"><h1><span>T</span></h1>text</div>",
                "<div class=\"story\"><h1><span>T</span></h1>text</div>",
                PyStr("T"), FALSE, "", None, <<>>)
      [] k = "widgets" ->
           WithWidgets(
             Page(url, "<div class=\"story\"><div class=\"menuR\">print</div>"
                         \o "<h1><span>T</span></h1>a\r\nb"
                         \o "<p class=\"share\">share</p></div>",
                  "<div class=\"story\"><div class=\"menuR\">print</div>"
                         \o "<h1><span>T</span></h1>a\r\nb"
                         \o "<p class=\"share\">share</p></div>",
                  PyStr("T"), FALSE, "", None, <<>>),
             "<div class=\"menuR\">print</div>", "<p class=\"share\">share</p>")
      [] k = "unpublished" ->
           Page(url, "<div class=\"story\"><h1><span>T</span></h1>"
                       \o skip_text \o ".</div>",
                "<div class=\"story\"><h1><span>T</span></h1>"
                       \o skip_text \o ".</div>",
                PyStr("T"), FALSE, "", None, <<>>)
      [] k = "nostory" ->
           Page(url, "<div class=\"error\">gone</div>", "", None, FALSE, "", None, <<>>)
      [] k = "notitle" ->
           Page(url, "<div class=\"story\">text</div>",
                "<div class=\"story\">text</div>", None, FALSE, "", None, <<>>)

UriMast == "/artikel/2024/05/"
UriA == "/artikel/2024/05/a/1.html"
UriB == "/artikel/2024/05/b/1.html"
UriC == "/artikel/2024/05/2.html"
UriX == "/artikel/2024/05/index.html"
UriOld == "/artikel/2023/50/9.html"
UriAbo == "/abo/"
UriNext == "/artikel/2024/06/1.html"

Title05 == "Jungle World Nr. 05/24,1. Februar 2024"
Title06 == "Jungle World Nr. 06/24,8. Februar 2024"
Thumb05 == "/sites/default/files/thumb_cover05.jpg"

RECURSIVE SeqsUpTo(_, _)
\* the sequences over S of length 0..n
SeqsUpTo(S, n) ==
    IF n = 0 THEN {<<>>}
    ELSE LET shorter == SeqsUpTo(S, n - 1) IN
         shorter \cup {Append(q, x) : q \in shorter, x \in S}

\* the markup of the teaser node: the title and, when img is not None, the
\* thumbnail of the cover
TeaserHtml(p, img) ==
    "<div class=\"cover_thumb\"><p>" \o p \o "</p>"
        \o (IF img = None THEN "" ELSE "<img src=\"" \o img.text \o "\"/>")
        \o "</div>"

RECURSIVE AnchorsHtml(_)
\* the markup of one <a> node per href
AnchorsHtml(hrefs) ==
    IF hrefs = <<>> THEN ""
    ELSE "<a href=\"" \o Head(hrefs) \o "\">x</a>" \o AnchorsHtml(Tail(hrefs))

IndexPage(url, p, hrefs) ==
    Page(url, TeaserHtml(p, PyStr(Thumb05)) \o AnchorsHtml(hrefs), "", None,
         TRUE, p, PyStr(Thumb05), hrefs)

\* an index page that also holds a story node
IndexStoryPage(url, p, hrefs) ==
    Page(url, TeaserHtml(p, PyStr(Thumb05))
                \o "<div class=\"story\"><h1><span>Inhalt</span></h1></div>"
                \o AnchorsHtml(hrefs),
         "<div class=\"story\"><h1><span>Inhalt</span></h1></div>",
         PyStr("Inhalt"), TRUE, p, PyStr(Thumb05), hrefs)

\* an index page whose teaser node has no <img>
NoImgPage(url, p, hrefs) ==
    Page(url, TeaserHtml(p, None) \o AnchorsHtml(hrefs), "", None,
         TRUE, p, None, hrefs)

\* an index page without teaser node
NoTeaserPage(url, hrefs) ==
    Page(url, "<div class=\"teaser\"></div>" \o AnchorsHtml(hrefs), "", None,
         FALSE, "", None, hrefs)

\* the index page of an issue that is not published yet
UnpublishedIndexPage(url, p, hrefs) ==
    Page(url, TeaserHtml(p, PyStr(Thumb05)) \o "<p>" \o skip_text \o "</p>"
                \o AnchorsHtml(hrefs), "", None,
         TRUE, p, PyStr(Thumb05), hrefs)

\* The index pages of the site: the issue 05/24 with a repeated anchor, with a
\* real article as first anchor and two articles of one file name, with
\* anchors that are no article of the issue, and with a story node of its own
\* and a link to an article named index.html; the issue 06/24; pages without
\* a usable teaser (no issue in the title, no <img>, no teaser node); the page
\* saying the issue is not published
IndexPages(url) ==
    {IndexPage(url, Title05, <<UriMast, UriA, UriC, UriA>>),
     IndexPage(url, Title05, <<UriC, UriA, UriB>>),
     IndexPage(url, Title05, <<UriAbo, UriMast, UriOld, UriMast, UriC>>),
     IndexStoryPage(url, Title05, <<UriMast, UriX>>),
     IndexPage(url, Title06, <<UriMast, UriNext>>),
     IndexPage(url, "Jungle World", <<UriMast, UriA>>),
     NoImgPage(url, Title05, <<UriMast, UriA>>),
     NoTeaserPage(url, <<UriMast, UriA>>),
     UnpublishedIndexPage(url, Title05, <<UriMast>>)}

IndexUris == {URI_INDEX, UriMast}
PagesInhalt == IndexPages(SERVER \o URI_INDEX)

\* the pages served under the index uri of the issue 2024.05, which a run
\* with the issue number as argument asks for
PagesMast ==
    {IndexPage(SERVER \o UriMast, Title05, <<UriMast, UriA, UriC, UriA>>),
     NoTeaserPage(SERVER \o UriMast, <<UriMast, UriA>>)}

\* the article a/1.html is served in every kind, the other articles are
\* published articles
KindsOf(uri) == IF uri = UriA THEN ArticleKinds ELSE {"ok"}

\* what request.urlopen(url).read().decode() can do: return the page of the
\* url, raise http.client.BadStatusLine, or raise another error (URLError)
Outcomes(uri) ==
    {[exc |-> "BadStatusLine"], [exc |-> "URLError"]}
    \cup {[exc |-> "", page |-> pg] :
            pg \in IF uri = URI_INDEX THEN PagesInhalt
                   ELSE IF uri = UriMast THEN PagesMast
                   ELSE {ArticlePage(SERVER \o uri, k) : k \in KindsOf(uri)}}

-----------------------------------------------------------------------------
(* Fetcher *)

\* the files of the cache directory
NoFiles == [f \in {} |-> None]
WriteFile(files, name, content) ==
    [f \in DOMAIN files \cup {name} |-> IF f = name THEN content ELSE files[f]]
RemoveFile(files, name) == [f \in DOMAIN files \ {name} |-> files[f]]
\* shutil.move(a, b) of an existing file a
MoveFile(files, a, b) == RemoveFile(WriteFile(files, b, files[a]), a)

fetch_html_url_uncaught(out) ==
    IF out.exc = "" THEN [raised |-> FALSE, html |-> out.page]
    ELSE [raised |-> TRUE, html |-> None]

\* JW2EPUB._fetch_html_url: the html, or None on BadStatusLine; any other
\* exception leaves the method (raised)
fetch_html_url(out) ==
    IF out.exc = "" THEN [raised |-> FALSE, html |-> out.page]
    ELSE IF out.exc = "BadStatusLine" THEN [raised |-> FALSE, html |-> None]
    ELSE [raised |-> TRUE, html |-> None]

\* open(filename, 'r') reads with universal newlines: '\r\n' and '\r' are
\* read as '\n'
Newlines(s) == Replace(Replace(s, "\r\n", "\n"), "\r", "\n")

\* JW2EPUB._fetch_html_file: the text of the file as read() returns it, with
\* what the parser finds in that text
fetch_html_file(files, filename) ==
    LET pg == files[filename] IN
    [pg EXCEPT !.text = Newlines(@),
               !.div = Newlines(@),
               !.h1 = IF @ = None THEN None ELSE PyStr(Newlines(@.text)),
               !.p = Newlines(@),
               !.img = IF @ = None THEN None ELSE PyStr(Newlines(@.text)),
               !.hrefs = [i \in DOMAIN @ |-> Newlines(@[i])],
               !.menuR = Newlines(@),
               !.share = Newlines(@)]

\* the cache file of a uri in _fetch_html
CacheFile(uri, is_index) ==
    IF is_index THEN PathJoin(CACHEDIR, "index.html")
    ELSE PathJoin(issue_dir, Basename(uri))

Request(uri, out) == [url |-> SERVER \o uri, exc |-> out.exc]

fetch_html_ignoring_cache(uri, is_index, out) ==
    LET filename == CacheFile(uri, is_index)
        got == fetch_html_url(out)
        asked == Append(requests, Request(uri, out))
    IN  IF got.raised
        THEN [raised |-> TRUE, html |-> None, files |-> cache, requests |-> asked]
        ELSE IF shall_skip_html(got.html)
        THEN [raised |-> FALSE, html |-> None, files |-> cache, requests |-> asked]
        ELSE [raised |-> FALSE, html |-> got.html,
              files |-> WriteFile(cache, filename, got.html), requests |-> asked]

\* JW2EPUB._fetch_html with the outcome `out` of the request it may make:
\* the html or None, the files after it, the request log after it
fetch_html(uri, is_index, out) ==
    LET filename == CacheFile(uri, is_index)
        got == fetch_html_url(out)
        asked == Append(requests, Request(uri, out))
    IN  IF ~is_index /\ filename \in DOMAIN cache
        THEN [raised |-> FALSE, html |-> fetch_html_file(cache, filename),
              files |-> cache, requests |-> requests]
        ELSE IF got.raised
        THEN [raised |-> TRUE, html |-> None, files |-> cache, requests |-> asked]
        ELSE IF shall_skip_html(got.html)
        THEN [raised |-> FALSE, html |-> None, files |-> cache, requests |-> asked]
        ELSE [raised |-> FALSE, html |-> got.html,
              files |-> WriteFile(cache, filename, got.html), requests |-> asked]

-----------------------------------------------------------------------------
(* Markup Normalizer, Link Collector, Book Assembler *)

Range(q) == {q[i] : i \in DOMAIN q}

\* str(story) after node.extract() of the node whose str is `node`; nothing
\* is removed when find returned None (node = "")
Extract(s, node) ==
    LET i == Find(s, node, 1) IN
    IF node = "" \/ i = 0 THEN s
    ELSE SubSeq(s, 1, i - 1) \o SubSeq(s, i + Len(node), Len(s))

\* str(story) after the print menu and the share paragraph were removed
StoryHtml(html) == Extract(Extract(html.div, html.menuR), html.share)

get_story_raising_without_story(uri, out) ==
    LET f == fetch_html(uri, FALSE, out)
        quiet == [raised |-> FALSE, story |-> None, html |-> None,
                  files |-> cache, requests |-> requests]
    IN  IF ~EndsWith(uri, ".html") THEN quiet
        ELSE IF ~Contains(uri, Replace(issue_no, ".", "/")) THEN quiet
        ELSE IF f.raised \/ (~Falsy(f.html) /\ (f.html.div = "" \/ f.html.h1 = None))
        THEN [raised |-> TRUE, story |-> None, html |-> f.html,
              files |-> f.files, requests |-> f.requests]
        ELSE IF Falsy(f.html)
        THEN [raised |-> FALSE, story |-> None, html |-> f.html,
              files |-> f.files, requests |-> f.requests]
        ELSE [raised |-> FALSE,
              story |-> [uri |-> uri, title |-> f.html.h1.text,
                         html |-> "<html><body>" \o StoryHtml(f.html)
                                    \o "</body></html",
                         src |-> f.html.src],
              html |-> f.html, files |-> f.files, requests |-> f.requests]

\* JW2EPUB.get_story with the outcome `out` of the request it may make: the
\* story or None (or raised), the html it parsed, the files and the request
\* log after it.  A story keeps, as src, the URL its html was served under.
get_story(uri, out) ==
    LET f == fetch_html(uri, FALSE, out)
        quiet == [raised |-> FALSE, story |-> None, html |-> None,
                  files |-> cache, requests |-> requests]
    IN  IF ~EndsWith(uri, ".html") THEN quiet
        ELSE IF ~Contains(uri, Replace(issue_no, ".", "/")) THEN quiet
        ELSE IF f.raised
        THEN [raised |-> TRUE, story |-> None, html |-> None,
              files |-> f.files, requests |-> f.requests]
        ELSE IF Falsy(f.html) \/ f.html.div = ""
        THEN [raised |-> FALSE, story |-> None, html |-> f.html,
              files |-> f.files, requests |-> f.requests]
        ELSE IF f.html.h1 = None   \* story.find('h1').find('span').text
        THEN [raised |-> TRUE, story |-> None, html |-> f.html,
              files |-> f.files, requests |-> f.requests]
        ELSE [raised |-> FALSE,
              story |-> [uri |-> uri, title |-> f.html.h1.text,
                         html |-> "<html><body>" \o StoryHtml(f.html)
                                    \o "</body></html",
                         src |-> f.html.src],
              html |-> f.html, files |-> f.files, requests |-> f.requests]

\* soup.findAll('a', attrs={'href': re.compile('/artikel')})
Anchors(page) == SelectSeq(page.hrefs, LAMBDA h : Contains(h, "/artikel"))

RECURSIVE PagesOf(_)
\* page = os.path.basename(story['uri']) of every story, in order
PagesOf(ss) ==
    IF ss = <<>> THEN <<>>
    ELSE <<Basename(Head(ss).uri)>> \o PagesOf(Tail(ss))

RECURSIVE FilesOf(_, _)
\* book.files[page] = File(story['html']) of every story, in order
FilesOf(files, ss) ==
    IF ss = <<>> THEN files
    ELSE FilesOf(WriteFile(files, Basename(Head(ss).uri), Head(ss).html), Tail(ss))

RECURSIVE Distinct(_)
\* the first occurrences of a sequence
Distinct(q) ==
    IF q = <<>> THEN <<>>
    ELSE LET front == Distinct(SubSeq(q, 1, Len(q) - 1)) IN
         IF q[Len(q)] \in Range(front) THEN front ELSE Append(front, q[Len(q)])

make_book_from_files(ss, no, cover) ==
    LET files == FilesOf(WriteFile(NoFiles, "cover.png", cover), ss)
        pages == Distinct(PagesOf(ss))
    IN  [kind |-> "Epub3",
         title |-> "Jungle World " \o no,
         identifier |-> "Jungle World " \o no,
         language |-> "de",
         files |-> files,
         cover_image |-> "cover.png",
         spine |-> pages,
         toc |-> [i \in DOMAIN pages |-> [title |-> "", href |-> pages[i]]]]

\* JW2EPUB.make_book after download_cover returned the bytes `cover`
make_book(ss, no, cover) ==
    LET files == FilesOf(WriteFile(NoFiles, "cover.png", cover), ss)
        pages == PagesOf(ss)
    IN  [kind |-> "Epub3",
         title |-> "Jungle World " \o no,
         identifier |-> "Jungle World " \o no,
         language |-> "de",
         files |-> files,
         cover_image |-> "cover.png",
         spine |-> pages,
         toc |-> [i \in DOMAIN ss |-> [title |-> ss[i].title, href |-> pages[i]]]]

-----------------------------------------------------------------------------
(* The process: JW2EPUB(settings, issue_no).run()                           *)

\* the years datetime.datetime.now() has in the runs of the pipeline
PipelineYears == {2024}

\* sys.argv[1] when given, else None (the current issue)
Arguments == {None, PyStr(""), PyStr("2024.05")}

\* JW2EPUB.__init__: the fields of the new object
NewSelf(arg) ==
    [issue_no |-> IF Falsy(arg) THEN "unknown" ELSE arg.text,
     uri_index |-> IF Falsy(arg) THEN URI_INDEX
                   ELSE URI_ARTICLE \o Replace(arg.text, ".", "/") \o "/",
     issue_dir |-> PathJoin(CACHEDIR, IF Falsy(arg) THEN "unknown" ELSE arg.text),
     title |-> "Unknown issue of Jungle World",
     uri_cover |-> ""]

Init ==
    /\ pc = "parse_index"
    /\ run = 1
    /\ \E arg \in Arguments :
        /\ uri_index = NewSelf(arg).uri_index
        /\ issue_no = NewSelf(arg).issue_no
        /\ issue_dir = NewSelf(arg).issue_dir
        /\ title = NewSelf(arg).title
        /\ uri_cover = NewSelf(arg).uri_cover
    /\ cache = NoFiles
    /\ soup = None
    /\ pos = 0
    /\ first = TRUE
    /\ stories = <<>>
    /\ parsed = <<>>
    /\ book = None
    /\ written = {}
    /\ requests = <<>>
    /\ visits = <<>>
    /\ input = None
    /\ output = None

\* JW2EPUB.parse_index, with the start of get_stories
ParseIndex ==
    /\ pc = "parse_index"
    /\ \E out \in Outcomes(uri_index), year \in PipelineYears :
        LET f == fetch_html(uri_index, TRUE, out)
            html == f.html
            no == IssueNo(html.p, year)
            dir == PathJoin(CACHEDIR, no)
        IN  /\ requests' = f.requests
            /\ IF f.raised \/ html = None
               THEN \* urlopen raised, or BeautifulSoup(None) and div.find raise
                    /\ pc' = "failed"
                    /\ cache' = f.files
                    /\ UNCHANGED <<soup, title, issue_no, issue_dir, uri_cover>>
               ELSE IF ~html.cover
               THEN \* div is None: div.find('p') raises AttributeError
                    /\ pc' = "failed"
                    /\ cache' = f.files
                    /\ soup' = html
                    /\ UNCHANGED <<title, issue_no, issue_dir, uri_cover>>
               ELSE IF IssueRaises(html.p)
               THEN /\ pc' = "failed"
                    /\ cache' = f.files
                    /\ soup' = html
                    /\ title' = html.p
                    /\ UNCHANGED <<issue_no, issue_dir, uri_cover>>
               ELSE IF html.img = None
               THEN \* div.find('img') is None: .attrs raises AttributeError
                    \* after the index file was moved
                    /\ pc' = "failed"
                    /\ soup' = html
                    /\ title' = html.p
                    /\ issue_no' = no
                    /\ issue_dir' = dir
                    /\ cache' = MoveFile(f.files, PathJoin(CACHEDIR, "index.html"),
                                         PathJoin(dir, "index.html"))
                    /\ UNCHANGED uri_cover
               ELSE /\ pc' = "get_stories"
                    /\ soup' = html
                    /\ title' = html.p
                    /\ issue_no' = no
                    /\ issue_dir' = dir
                    /\ cache' = MoveFile(f.files, PathJoin(CACHEDIR, "index.html"),
                                         PathJoin(dir, "index.html"))
                    /\ uri_cover' = UriCover(html.img.text)
    /\ pos' = IF pc' = "get_stories" THEN 1 ELSE pos
    /\ UNCHANGED <<run, uri_index, first, stories, parsed, book, written, visits,
                   input, output>>

\* one iteration of the for loop of get_stories, get_story included
GetStoriesStep ==
    /\ pc = "get_stories"
    /\ pos <= Len(Anchors(soup))
    /\ LET uri == Anchors(soup)[pos] IN
       IF first
       THEN /\ first' = FALSE
            /\ pos' = pos + 1
            /\ UNCHANGED <<pc, cache, stories, parsed, requests, visits>>
       ELSE IF uri \in Range(parsed)
       THEN /\ pos' = pos + 1
            /\ UNCHANGED <<pc, first, cache, stories, parsed, requests, visits>>
       ELSE \E out \in Outcomes(uri) :
            LET g == get_story(uri, out) IN
            /\ cache' = g.files
            /\ requests' = g.requests
            /\ visits' = Append(visits,
                                [uri |-> uri,
                                 asked |-> g.requests # requests,
                                 exc |-> IF g.requests # requests THEN out.exc
                                         ELSE "",
                                 wrote |-> g.files # cache,
                                 html |-> g.html,
                                 result |-> IF g.raised THEN "raised"
                                            ELSE IF g.story = None THEN "None"
                                            ELSE "story"])
            /\ IF g.raised
               THEN /\ pc' = "failed"
                    /\ UNCHANGED <<pos, stories, parsed>>
               ELSE /\ pc' = pc
                    /\ pos' = pos + 1
                    /\ IF g.story # None
                       THEN /\ stories' = Append(stories, g.story)
                            /\ parsed' = Append(parsed, uri)
                       ELSE UNCHANGED <<stories, parsed>>
            /\ first' = first
    /\ UNCHANGED <<run, uri_index, issue_no, issue_dir, title, uri_cover, soup,
                   book, written, input, output>>

\* the end of the for loop: get_stories returns stories
GetStoriesReturn ==
    /\ pc = "get_stories"
    /\ pos > Len(Anchors(soup))
    /\ pc' = "make_book"
    /\ UNCHANGED <<run, uri_index, cache, issue_no, issue_dir, title, uri_cover,
                   soup, pos, first, stories, parsed, book, written, requests,
                   visits, input, output>>

\* what request.urlretrieve(url, filename) can do: store the whole image,
\* raise before the file is opened (URLError, or BadStatusLine, which
\* download_cover does not catch), or raise ContentTooShortError after it
\* wrote the bytes that arrived
CoverOutcomes == {"", "URLError", "BadStatusLine", "ContentTooShortError"}

Bytes(url, whole) == [kind |-> "bytes", src |-> url, whole |-> whole]

\* JW2EPUB.download_cover with the outcome exc of urlretrieve: the files
\* after it
download_cover(exc) ==
    LET url == SERVER \o uri_cover
        filename == PathJoin(issue_dir, Basename(uri_cover))
    IN  IF exc = "" THEN WriteFile(cache, filename, Bytes(url, TRUE))
        ELSE IF exc = "ContentTooShortError"
        THEN WriteFile(cache, filename, Bytes(url, FALSE))
        ELSE cache

MakeBookWritingFirst ==
    /\ pc = "make_book"
    /\ \E exc \in CoverOutcomes :
        LET url == SERVER \o uri_cover
        IN  /\ requests' = Append(requests, [url |-> url, exc |-> exc])
            /\ written' = written \cup {FilenameBook(issue_no)}
            /\ cache' = download_cover(exc)
            /\ IF exc # ""
               THEN /\ pc' = "failed"
                    /\ UNCHANGED book
               ELSE /\ pc' = "write"
                    /\ book' = make_book(stories, issue_no, Bytes(url, TRUE))
    /\ UNCHANGED <<run, uri_index, issue_no, issue_dir, title, uri_cover, soup,
                   pos, first, stories, parsed, visits, input, output>>

\* JW2EPUB.make_book, download_cover included
MakeBook ==
    /\ pc = "make_book"
    /\ \E exc \in CoverOutcomes :
        LET url == SERVER \o uri_cover
        IN  /\ requests' = Append(requests, [url |-> url, exc |-> exc])
            /\ cache' = download_cover(exc)
            /\ IF exc # ""
               THEN /\ pc' = "failed"
                    /\ UNCHANGED book
               ELSE /\ pc' = "write"
                    /\ book' = make_book(stories, issue_no, Bytes(url, TRUE))
    /\ UNCHANGED <<run, uri_index, issue_no, issue_dir, title, uri_cover, soup,
                   pos, first, stories, parsed, written, visits, input, output>>

\* the end of run: book.write(filename_book)
WriteBook ==
    /\ pc = "write"
    /\ written' = written \cup {FilenameBook(issue_no)}
    /\ pc' = "done"
    /\ UNCHANGED <<run, uri_index, cache, issue_no, issue_dir, title, uri_cover,
                   soup, pos, first, stories, parsed, book, requests, visits,
                   input, output>>

\* the program is started again on the same cache directory
NewRun ==
    /\ pc \in {"done", "failed"}
    /\ run < MaxRuns
    /\ run' = run + 1
    /\ pc' = "parse_index"
    /\ \E arg \in Arguments :
        /\ uri_index' = NewSelf(arg).uri_index
        /\ issue_no' = NewSelf(arg).issue_no
        /\ issue_dir' = NewSelf(arg).issue_dir
        /\ title' = NewSelf(arg).title
        /\ uri_cover' = NewSelf(arg).uri_cover
    /\ soup' = None
    /\ pos' = 0
    /\ first' = TRUE
    /\ stories' = <<>>
    /\ parsed' = <<>>
    /\ book' = None
    /\ written' = {}
    /\ requests' = <<>>
    /\ visits' = <<>>
    /\ UNCHANGED <<cache, input, output>>

Next ==
    \/ ParseIndex
    \/ GetStoriesStep
    \/ GetStoriesReturn
    \/ MakeBook
    \/ WriteBook
    \/ NewRun

Spec == Init /\ [][Next]_vars

-----------------------------------------------------------------------------
(* The process before run() is called, and the state the function           *)
(* specifications keep the pipeline in                                      *)

PipeIdle ==
    /\ pc = "idle"
    /\ run = 0
    /\ uri_index = URI_INDEX
    /\ cache = NoFiles
    /\ issue_no = "unknown"
    /\ issue_dir = PathJoin(CACHEDIR, "unknown")
    /\ title = "Unknown issue of Jungle World"
    /\ uri_cover = ""
    /\ soup = None
    /\ pos = 0
    /\ first = TRUE
    /\ stories = <<>>
    /\ parsed = <<>>
    /\ book = None
    /\ written = {}
    /\ requests = <<>>
    /\ visits = <<>>

Pending == [state |-> "pending"]

-----------------------------------------------------------------------------
(* Specification of the Content Filter alone: _shall_skip_html on bounded   *)
(* inputs                                                                   *)

FilterLead == {"", "x", "<p>", "Diesen ", " "}
FilterCore == {"", skip_text, SubSeq(skip_text, 1, Len(skip_text) - 1),
               SubSeq(skip_text, 2, Len(skip_text)),
               "diesen Artikel finden Sie bisher nur in der gedruckten Jungle World",
               "Diesen Artikel finden Sie bisher nur in der gedruckten  Jungle World",
               "Diesen Artikel", "<div class=\"story\">"}
FilterTrail == {"", ".", "</p>", " World", "d"}

FilterInputs ==
    {None} \cup {PyStr(a \o b \o c) :
                    a \in FilterLead, b \in FilterCore, c \in FilterTrail}

InitFilter ==
    /\ PipeIdle
    /\ input \in FilterInputs
    /\ output = Pending

ShallSkip ==
    /\ output = Pending
    /\ output' = [state |-> "returned", value |-> shall_skip_html(input)]
    /\ UNCHANGED <<pipe_vars, input>>

NextFilter == ShallSkip

SpecFilter == InitFilter /\ [][NextFilter]_vars

-----------------------------------------------------------------------------
(* Specification of the Issue Resolver alone: the title parsing of          *)
(* parse_index and the file name of run on bounded titles and years         *)

TitleHeads == {"Jungle World Nr", "Jungle World", "J.W. Nr"}
TitleIssues == {"31", "05", "7"}
TitleYears == {"12", "24", "99"}
TitleSeps == {",", ", ", "\f,"}
TitlePads == {" ", "", "\t "}
TitleDates == {"2. August 2012", "1. Februar 2024", "31.12.1999, Berlin"}
Years == {1999, 2012, 2024, 2100}

\* '<title>. <issue>/<year-suffix>, <date>', with the white space around
\* '<issue>/<year-suffix>' varied
ShapedTitle(h, w, i, y, s, d) == h \o "." \o w \o i \o "/" \o y \o s \o d

OtherTitles == {"", "Jungle World", "Jungle World Nr. 31", "Nr. 31-12, 2012",
                "Unknown issue of Jungle World"}

IssueInputs ==
    {[title |-> ShapedTitle(h, w, i, y, s, d), year |-> yr,
      head |-> h, issue |-> i, yy |-> y] :
        h \in TitleHeads, w \in TitlePads, i \in TitleIssues, y \in TitleYears,
        s \in TitleSeps, d \in TitleDates, yr \in Years}
    \cup {[title |-> t, year |-> yr, head |-> "", issue |-> "", yy |-> ""] :
            t \in OtherTitles, yr \in Years}

InitIssue ==
    /\ PipeIdle
    /\ input \in IssueInputs
    /\ output = Pending

ResolveIssue ==
    /\ output = Pending
    /\ output' = IF IssueRaises(input.title)
                 THEN [state |-> "raised", error |-> "IndexError"]
                 ELSE [state |-> "returned",
                       issue_no |-> IssueNo(input.title, input.year),
                       filename_book |-> FilenameBook(IssueNo(input.title, input.year))]
    /\ UNCHANGED <<pipe_vars, input>>

NextIssue == ResolveIssue

SpecIssue == InitIssue /\ [][NextIssue]_vars

-----------------------------------------------------------------------------
(* Specification of the Book Assembler alone: make_book, download_cover     *)
(* included, called with a bounded list of stories on the object parse_index *)
(* left for the issue 2024.05                                                *)

MaxStories == 3

StoryOf(uri, t) ==
    [uri |-> uri, title |-> t,
     html |-> "<html><body><div class=\"story\">" \o t \o "</div></body></html",
     src |-> SERVER \o uri]

BookStories == {StoryOf(UriC, "Zwei"), StoryOf(UriA, "Eins"),
                StoryOf(UriB, "Anders"), StoryOf(UriX, "Inhalt")}

\* the index page parse_index read
BookIndex == IndexPage(SERVER \o URI_INDEX, Title05, <<UriMast>>)

\* run() after parse_index, at the call make_book(stories)
InitBook ==
    /\ pc = "make_book"
    /\ run = 1
    /\ uri_index = URI_INDEX
    /\ issue_no = IssueNo(Title05, 2024)
    /\ issue_dir = PathJoin(CACHEDIR, IssueNo(Title05, 2024))
    /\ cache = WriteFile(NoFiles,
                         PathJoin(PathJoin(CACHEDIR, IssueNo(Title05, 2024)),
                                  "index.html"),
                         BookIndex)
    /\ title = Title05
    /\ uri_cover = UriCover(Thumb05)
    /\ soup = BookIndex
    /\ pos = Len(Anchors(BookIndex)) + 1
    /\ first = FALSE
    /\ stories \in SeqsUpTo(BookStories, MaxStories)
    /\ parsed = <<>>
    /\ book = None
    /\ written = {}
    /\ requests = <<[url |-> SERVER \o URI_INDEX, exc |-> ""]>>
    /\ visits = <<>>
    /\ input = None
    /\ output = None

NextBook == MakeBook

SpecBook == InitBook /\ [][NextBook]_vars

-----------------------------------------------------------------------------
(* The claims *)

\* the final path segment of the article URIs of the site
PageName(uri) ==
    CASE uri = UriA -> "1.html"
      [] uri = UriB -> "1.html"
      [] uri = UriC -> "2.html"
      [] uri = UriX -> "index.html"
      [] uri = UriNext -> "1.html"

\* C4 (Book Assembler): the spine and the table of contents of the book hold
\* the page names of the input articles in input order: same length, the
\* i-th entry of both is the page of the i-th article.
C4_SpineTocOrder ==
    book # None =>
        /\ Len(book.spine) = Len(stories)
        /\ Len(book.toc) = Len(stories)
        /\ \A i \in 1..Len(stories) :
            /\ book.spine[i] = PageName(stories[i].uri)
            /\ book.toc[i].href = PageName(stories[i].uri)
            /\ book.toc[i].title = stories[i].title

\* a book of three articles given out of alphabetical order, two of them with
\* the same page name
C4_Witness ==
    /\ stories = <<StoryOf(UriC, "Zwei"), StoryOf(UriA, "Eins"), StoryOf(UriB, "Anders")>>
    /\ pc = "write"
    /\ book # None
    /\ book.spine = <<"2.html", "1.html", "1.html">>

StoryUris == [i \in DOMAIN stories |-> stories[i].uri]

\* C2 as stated (Link Collector): when get_stories has returned, the uris of
\* the stories are the anchors after the first one, restricted to the uris
\* that yielded an Article, each at its first occurrence.
C2_FirstOccurrenceOrder ==
    (pc \in {"make_book", "write", "done"} /\ Anchors(soup) # <<>>) =>
        StoryUris = Distinct(SelectSeq(Tail(Anchors(soup)),
                                       LAMBDA u : u \in Range(StoryUris)))

\* C5 (no partial book): a run that failed has written no package file, and a
\* package file is written only by a run that resolved the index, visited
\* every anchor and assembled the book.
C5_NoPartialBook ==
    /\ pc = "failed" => written = {}
    /\ written # {} =>
        /\ pc = "done"
        /\ soup # None
        /\ pos > Len(Anchors(soup))
        /\ book # None
        /\ book.spine = PagesOf(stories)
        /\ written = {"JW-" \o issue_no \o ".epub"}

\* a run that failed after it had collected an article
C5_Witness ==
    /\ pc = "failed"
    /\ stories # <<>>
    /\ written = {}

\* C6 as stated: every failed request of an article page (any exception of
\* the transport) gives no html and no Article, writes no cache file and lets
\* the run go on.
C6_Original_AnyFailure ==
    \A i \in DOMAIN visits :
        (visits[i].asked /\ visits[i].exc # "") =>
            /\ visits[i].result = "None"
            /\ visits[i].html = None
            /\ ~visits[i].wrote

\* C6 (amended): a request of an article page that fails with a malformed
\* status line (BadStatusLine) gives no html: get_story returns no Article,
\* no cache file is written, and the run goes on with the next anchor; any
\* other failure of the request raises and ends the run without a book.
\* (A run that failed inside get_story stays at the anchor it failed on; a
\* run that failed later has passed the last anchor.)
C6_BadStatusLineIsAbsent ==
    /\ \A i \in DOMAIN visits :
        /\ (visits[i].asked /\ visits[i].exc = "BadStatusLine") =>
            /\ visits[i].result = "None"
            /\ visits[i].html = None
            /\ ~visits[i].wrote
            /\ (i = Len(visits) /\ pc = "failed") => pos > Len(Anchors(soup))
        /\ (visits[i].asked /\ visits[i].exc = "URLError") =>
            /\ visits[i].result = "raised"
            /\ i = Len(visits)
            /\ pc = "failed"
            /\ written = {}

\* a run finished with a book after a request failed with BadStatusLine and
\* the next anchor gave an Article
C6_Witness ==
    /\ pc = "done"
    /\ \E i \in DOMAIN visits :
        /\ visits[i].exc = "BadStatusLine"
        /\ i < Len(visits)
        /\ visits[i + 1].result = "story"

\* C7 as stated: within one run no URL is requested twice.
C7_AtMostOneFetch ==
    \A i, j \in DOMAIN requests :
        requests[i].url = requests[j].url => i = j

\* C8 (fetch policy): every step of parse_index requests the index page from
\* the network; a step of get_stories requests an article page only when the
\* cache holds no file under the issue directory and the final path segment
\* of the uri; and no file of an issue directory is ever removed, so a page
\* cached once is not requested again.
C8_FetchPolicy ==
    [][/\ pc = "parse_index" =>
            /\ Len(requests') = 1
            /\ requests'[1].url = SERVER \o uri_index
       /\ (pc = "get_stories" /\ requests' # requests) =>
            /\ Len(requests') = Len(requests) + 1
            /\ requests'[Len(requests')].url = SERVER \o Anchors(soup)[pos]
            /\ (issue_dir \o "/" \o PageName(Anchors(soup)[pos]))
                    \notin DOMAIN cache
       /\ \A f \in DOMAIN cache :
            f # "cache/index.html" => f \in DOMAIN cache'
      ]_vars

\* a second run that found an article in the cache and requested the index
\* page only
C8_Witness ==
    /\ run = 2
    /\ pc = "done"
    /\ Len(requests) = 2
    /\ requests[1].url = SERVER \o uri_index
    /\ \E i \in DOMAIN visits :
        /\ visits[i].uri = UriA
        /\ ~visits[i].asked
        /\ visits[i].result = "story"

\* C9 as stated: a fetched page that passes the Content Filter and has no
\* story node ends the run, as an index page without teaser node does.
C9_Original_NoStoryAborts ==
    /\ \A i \in DOMAIN visits :
        (visits[i].html # None /\ visits[i].html.div = "")
            => visits[i].result = "raised"
    /\ (soup # None /\ ~soup.cover) => (pc = "failed" /\ written = {})

\* C9 (amended): a page that passes the Content Filter and has no story node
\* gives no Article and the run goes on with the next anchor; an index page
\* without teaser node ends the run, and no book is produced.
C9_NoStoryIsOmitted ==
    /\ \A i \in DOMAIN visits :
        (visits[i].html # None /\ visits[i].html.div = "") =>
            /\ visits[i].result = "None"
            /\ (i = Len(visits) /\ pc = "failed") => pos > Len(Anchors(soup))
    /\ (soup # None /\ ~soup.cover) =>
            (pc = "failed" /\ written = {} /\ book = None /\ visits = <<>>)

\* a run finished with a book although an article page had no story node
C9_Witness ==
    /\ pc = "done"
    /\ written # {}
    /\ \E i \in DOMAIN visits :
        /\ visits[i].asked
        /\ visits[i].html # None
        /\ visits[i].html.div = ""

\* C10 as stated (content provenance): every Article is built from html that
\* was served under the Article's own URI.
C10_Provenance ==
    \A i \in DOMAIN stories : stories[i].src = SERVER \o stories[i].uri

\* C3 (Content Filter): the result is TRUE for an absent or empty input, TRUE
\* for an input in which the marker phrase occurs at some position, whatever
\* surrounds it, and FALSE for every other non-empty input.
MarkerOccurs(text) ==
    \E i \in 1..(Len(text) - Len(skip_text) + 1) :
        SubSeq(text, i, i + Len(skip_text) - 1) = skip_text

C3_FilterResult ==
    output # Pending =>
        output.value = IF input = None THEN TRUE
                       ELSE IF input.text = "" THEN TRUE
                       ELSE MarkerOccurs(input.text)

\* a returned TRUE for the marker with other content before and after it
C3_Witness ==
    /\ output # Pending
    /\ input # None
    /\ input.text = "<p>" \o skip_text \o "</p>"
    /\ output.value = TRUE

\* C1 as stated: the identifier of a shaped title is 'YY.NN', without century.
C1_Original_YYNN ==
    (output # Pending /\ input.issue # "" /\ ~Contains(input.head, "."))
        => /\ output.state = "returned"
           /\ output.issue_no = input.yy \o "." \o input.issue

CenturyPrefix(year) ==
    CASE year \in 1900..1999 -> "19"
      [] year \in 2000..2099 -> "20"
      [] year \in 2100..2199 -> "21"

\* C1 (amended): for a title '<title>. <issue>/<year-suffix>,<date>' whose
\* <title> part holds no '.', the identifier is the century prefix of the
\* current year, the year suffix, a dot and the issue number, and the package
\* file is 'JW-<identifier>.epub'; with prefix '20' the two example titles give
\* '2012.31' and '2024.05' ('JW-2024.05.epub').
C1_IssueNo ==
    (output # Pending /\ input.issue # "" /\ ~Contains(input.head, "."))
        => /\ output.state = "returned"
           /\ output.issue_no
                = CenturyPrefix(input.year) \o input.yy \o "." \o input.issue
           /\ output.filename_book = "JW-" \o output.issue_no \o ".epub"
           /\ (input.title = "Jungle World Nr. 31/12,2. August 2012"
                 /\ input.year = 2024) => output.issue_no = "2012.31"
           /\ (input.title = "Jungle World Nr. 05/24,1. Februar 2024"
                 /\ input.year = 2024)
                => /\ output.issue_no = "2024.05"
                   /\ output.filename_book = "JW-2024.05.epub"

C1_Witness ==
    /\ input.title = "Jungle World Nr. 05/24,1. Februar 2024"
    /\ input.year = 2024
    /\ output # Pending
    /\ output.state = "returned"
    /\ output.issue_no = "2024.05"

====
